---- MODULE Spec2Model ----
(***************************************************************************)
(* The desktop-shell client of weston/clients: the desktop record of       *)
(* desktop-shell-simple.c with its outputs, the panel and background of    *)
(* each output, the readiness barrier (check_desktop_ready) and the lock   *)
(* coordinator of desktop-shell-unlock.c.                                  *)
(*                                                                         *)
(* Spec is the client as main() builds it.  SpecLock drives the handlers   *)
(* of desktop-shell-unlock.c with the coordinator object that              *)
(* unlocker_create() allocates stored in desktop.unlocker; main() itself   *)
(* stores what unlocker_create() returns.  SpecLockFair adds the loop's    *)
(* running of deferred tasks as a fairness condition.  The other           *)
(* specifications take one part of the client each: SpecParse the command  *)
(* line parser of a launcher, SpecPanel one panel from its creation to its *)
(* destruction, SpecReap the children its launchers fork, SpecBackground   *)
(* the reading of the [background] section, SpecColor the unpacking of a   *)
(* colour word, SpecCursor the grab cursor, SpecHotplug the coming and     *)
(* going of outputs.                                                       *)
(***************************************************************************)
EXTENDS Integers, Sequences, FiniteSets, Bags, TLC

(* ---- bounds of the model ---- *)
MaxOutputs == 2
MaxLockEvents == 2
MaxButtonEvents == 3
MaxPathLen == 4
MaxEnv == 2
MaxSections == 2
MaxForks == 2
\* The colour words tried have every byte among 0 .. MaxLowByte or the sample bytes.
MaxLowByte == 1

(* ---- program constants ---- *)
key_locking == 1
\* enum of desktop-shell-background.c
BACKGROUND_SCALE == 0
BACKGROUND_SCALE_CROP == 1
BACKGROUND_TILE == 2

\* Pointers are records, so that a pointer to an object and the null pointer compare.
NULL == [ptr |-> "NULL"]
\* The value of storage that malloc() returned and nothing has written yet.
UNINIT == [ptr |-> "UNINIT"]
\* Some pointer other than the null pointer.
GARBAGE == [ptr |-> "GARBAGE"]

\* Versions a compositor may advertise for the desktop_shell global.
Versions == {1, 2, 3}
\* wl_output transform and scale values the compositor may send.
Transforms == {0, 1}
Scales == {1, 2}
\* linux/input.h button codes and wl_pointer button states delivered by the toolkit.
Buttons == {"BTN_LEFT", "BTN_RIGHT"}
ButtonStates == {"PRESSED", "RELEASED"}
\* Strings are sequences of characters.  The characters of a launcher's command
\* line and of an environment entry: two letters, '=' and one whitespace character.
Chars == {"a", "b", "=", " "}
\* The end of a string, as strncmp() reads it.
NUL == "NUL"
\* Entries NAME=VALUE of the inherited environment (environ); their names differ.
EnvEntries == {<<"a", "=", "b">>, <<"a", "b", "=", "b">>, <<"b", "=", "a">>}

\* The cursor values of the desktop_shell protocol that desktop_shell_grab_cursor
\* names, and two values it does not name.
ProtocolCursors ==
    {"DESKTOP_SHELL_CURSOR_NONE", "DESKTOP_SHELL_CURSOR_BUSY", "DESKTOP_SHELL_CURSOR_MOVE",
     "DESKTOP_SHELL_CURSOR_RESIZE_TOP", "DESKTOP_SHELL_CURSOR_RESIZE_BOTTOM",
     "DESKTOP_SHELL_CURSOR_RESIZE_LEFT", "DESKTOP_SHELL_CURSOR_RESIZE_RIGHT",
     "DESKTOP_SHELL_CURSOR_RESIZE_TOP_LEFT", "DESKTOP_SHELL_CURSOR_RESIZE_TOP_RIGHT",
     "DESKTOP_SHELL_CURSOR_RESIZE_BOTTOM_LEFT", "DESKTOP_SHELL_CURSOR_RESIZE_BOTTOM_RIGHT",
     "DESKTOP_SHELL_CURSOR_ARROW", "UNNAMED_12", "UNNAMED_255"}
\* The value of an enum cursor_type object that was zeroed and never assigned.
ZeroCursor == "cursor_type(0)"
\* No event received, no value returned yet.
NoEvent == "none"

VARIABLES
    phase,              \* "startup": main() before display_run(); "run": inside display_run()
    crashed,            \* the process died on a NULL dereference
    shell,              \* desktop.shell
    interface_version,  \* desktop.interface_version
    advertised,         \* version the compositor announced for desktop_shell (0: not announced)
    unlocker,           \* desktop.unlocker
    outputs,            \* desktop.outputs, head of the wl_list first
    painted,            \* desktop.painted
    dialog,             \* the dialog field of the coordinator object
    deferred,           \* the display's list of deferred tasks
    input,              \* the button events dispatched so far to the newest dialog
    readySent,          \* desktop_shell.desktop_ready requests sent
    unlockSent,         \* desktop_shell.unlock requests sent
    lockSurfaceSet,     \* desktop_shell.set_lock_surface requests sent (dialogs created)
    dialogsDestroyed,   \* calls of unlock_dialog_destroy on a live dialog
    taskDefers,         \* calls of display_defer on the coordinator's task
    lockEvents,         \* prepare_lock_surface events received
    path,               \* the command line given to panel_add_launcher
    environ,            \* the environment the client inherited
    launcher,           \* the launcher panel_add_launcher built (NULL: not called yet)
    panelState,         \* life of the panel under test: "none", "created", "run", "destroyed"
    panelObj,           \* the struct panel under test (NULL: not created or freed)
    config,             \* weston.ini as parse_config_file reads it
    key_launcher_icon,  \* static key_launcher_icon
    key_launcher_path,  \* static key_launcher_path
    children,           \* the processes fork() created, oldest first
    sigchld,            \* SIGCHLD is pending for the client
    forkCalls,          \* calls of fork()
    launcherEvent,      \* the last button event dispatched to a launcher (NULL: none)
    launcherCalls,      \* the (icon, path) pairs launcher_section_done built launchers from
    bgConfig,           \* weston.ini as background_read_config's parse_config_file reads it
    key_background_type,\* static key_background_type
    backgrounds,        \* the backgrounds created, in the order main() reads their configuration
    bgReads,            \* calls of background_read_config made by main()
    grab_cursor,        \* desktop.grab_cursor
    cursorEvent,        \* the cursor value of the last grab_cursor event
    shownCursor,        \* what grab_surface_enter_handler returned last
    removed,            \* ids of the wl_output globals the compositor has removed
    requests,           \* bag of the surface requests marshalled, each with the handle used
    color,              \* the uint32_t colour word handed to set_hex_color, bit 0 first
    source              \* the source colour cairo was last given (NoSource: none yet)

coreVars == <<phase, crashed, shell, interface_version, advertised, unlocker, outputs,
              painted, dialog, deferred, input, readySent, unlockSent, lockSurfaceSet,
              dialogsDestroyed, taskDefers, lockEvents>>
parseVars == <<path, environ, launcher>>
panelVars == <<panelState, panelObj, config, key_launcher_icon, key_launcher_path,
               children, sigchld, forkCalls, launcherEvent, launcherCalls>>
bgVars == <<bgConfig, key_background_type, backgrounds, bgReads>>
cursorVars == <<grab_cursor, cursorEvent, shownCursor>>
hotplugVars == <<removed, requests>>
colorVars == <<color, source>>
\* The variables outside struct desktop and the lock coordinator.
extVars == <<parseVars, panelVars, bgVars, cursorVars, hotplugVars, colorVars>>
\* What the actions of one group leave unchanged of the other groups.
exceptParse == <<panelVars, bgVars, cursorVars, hotplugVars, colorVars>>
exceptPanel == <<parseVars, bgVars, cursorVars, hotplugVars, colorVars>>
exceptBg == <<parseVars, panelVars, cursorVars, hotplugVars, colorVars>>
exceptCursor == <<parseVars, panelVars, bgVars, hotplugVars, colorVars>>
exceptHotplug == <<parseVars, panelVars, bgVars, cursorVars, colorVars>>
exceptColor == <<parseVars, panelVars, bgVars, cursorVars, hotplugVars>>
\* All variables but crashed.
coreButCrashed == <<phase, shell, interface_version, advertised, unlocker, outputs,
                    painted, dialog, deferred, input, readySent, unlockSent,
                    lockSurfaceSet, dialogsDestroyed, taskDefers, lockEvents>>
vars == <<coreVars, extVars>>

desktopVars == <<shell, interface_version, advertised, unlocker, outputs, painted>>
lockVars == <<dialog, deferred, input, lockSurfaceSet, dialogsDestroyed, taskDefers>>

(* ---- helpers ---- *)

\* Conversion of an int to a signed bit-field of one bit (int painted:1): the value
\* modulo 2, read back as 0 or -1.
Bitfield1(v) == IF v % 2 = 0 THEN 0 ELSE -1

\* The toolkit window state that the output listener changes.
NewWindow == [transform |-> 0, scale |-> 1]

IsDialog(d) == d \notin {NULL, UNINIT}

(* ---- desktop-shell-panel.c, desktop-shell-background.c ---- *)

panel_create(ok) ==
    IF ok THEN [painted |-> 0, window |-> NewWindow] ELSE NULL

background_create ==
    [painted |-> 0, window |-> NewWindow]

panel_painted(panel) == panel.painted

background_painted(background) == background.painted

(* ---- desktop-shell-simple.c: the readiness barrier ---- *)

is_desktop_painted_first_only(outs) ==
    IF \A i \in 1..Len(outs) :
          i = 1 =>
            /\ ~(outs[i].panel # NULL /\ panel_painted(outs[i].panel) = 0)
            /\ ~(outs[i].background # NULL
                    /\ background_painted(outs[i].background) = 0)
    THEN 1 ELSE 0

is_desktop_painted(outs) ==
    IF \A i \in 1..Len(outs) :
          /\ ~(outs[i].panel # NULL /\ panel_painted(outs[i].panel) = 0)
          /\ ~(outs[i].background # NULL
                  /\ background_painted(outs[i].background) = 0)
    THEN 1 ELSE 0

check_desktop_ready_no_guard(outs) ==
    IF is_desktop_painted(outs) # 0
    THEN /\ painted' = 1
         /\ readySent' = IF interface_version >= 2 THEN readySent + 1 ELSE readySent
    ELSE UNCHANGED <<painted, readySent>>

check_desktop_ready_no_version(outs) ==
    IF painted = 0 /\ is_desktop_painted(outs) # 0
    THEN /\ painted' = 1
         /\ readySent' = readySent + 1
    ELSE UNCHANGED <<painted, readySent>>

\* outs: the outputs as the redraw handler that calls the barrier has left them.
check_desktop_ready(outs) ==
    IF painted = 0 /\ is_desktop_painted(outs) # 0
    THEN /\ painted' = 1
         /\ readySent' = IF interface_version >= 2 THEN readySent + 1 ELSE readySent
    ELSE UNCHANGED <<painted, readySent>>

(* ---- redraw handlers ---- *)

panel_redraw_handler_no_check(i) ==
    /\ phase = "run" /\ ~crashed
    /\ i \in 1..Len(outputs)
    /\ outputs[i].panel # NULL
    /\ outputs' = [outputs EXCEPT ![i].panel.painted = 1]
    /\ UNCHANGED <<painted, readySent>>
    /\ UNCHANGED <<phase, crashed, shell, interface_version, advertised, unlocker,
                   unlockSent, lockEvents>>
    /\ UNCHANGED lockVars
    /\ UNCHANGED extVars

panel_redraw_handler(i) ==
    /\ phase = "run" /\ ~crashed
    /\ i \in 1..Len(outputs)
    /\ outputs[i].panel # NULL
    /\ outputs' = [outputs EXCEPT ![i].panel.painted = 1]
    /\ check_desktop_ready(outputs')
    /\ UNCHANGED <<phase, crashed, shell, interface_version, advertised, unlocker,
                   unlockSent, lockEvents>>
    /\ UNCHANGED lockVars
    /\ UNCHANGED extVars

background_draw(i) ==
    /\ phase = "run" /\ ~crashed
    /\ i \in 1..Len(outputs)
    /\ outputs[i].background # NULL
    /\ outputs' = [outputs EXCEPT ![i].background.painted = Bitfield1(1)]
    /\ check_desktop_ready(outputs')
    /\ UNCHANGED <<phase, crashed, shell, interface_version, advertised, unlocker,
                   unlockSent, lockEvents>>
    /\ UNCHANGED lockVars
    /\ UNCHANGED extVars

(* ---- desktop_shell and wl_output listeners ---- *)

\* s->configure(...): panel_configure and background_configure only ask the toolkit
\* to schedule a resize of the window; no field of the client changes.
desktop_shell_configure(i, surface) ==
    /\ phase = "run" /\ ~crashed
    /\ i \in 1..Len(outputs)
    /\ outputs[i][surface] # NULL
    /\ UNCHANGED vars

output_handle_geometry(i, transform) ==
    /\ phase = "run" /\ ~crashed
    /\ i \in 1..Len(outputs)
    /\ outputs' = [outputs EXCEPT
         ![i].panel = IF @ # NULL THEN [@ EXCEPT !.window.transform = transform] ELSE @,
         ![i].background =
              IF @ # NULL THEN [@ EXCEPT !.window.transform = transform] ELSE @]
    /\ UNCHANGED <<phase, crashed, shell, interface_version, advertised, unlocker,
                   painted, readySent, unlockSent, lockEvents>>
    /\ UNCHANGED lockVars
    /\ UNCHANGED extVars

output_handle_scale(i, scale) ==
    /\ phase = "run" /\ ~crashed
    /\ i \in 1..Len(outputs)
    /\ outputs' = [outputs EXCEPT
         ![i].panel = IF @ # NULL THEN [@ EXCEPT !.window.scale = scale] ELSE @,
         ![i].background =
              IF @ # NULL THEN [@ EXCEPT !.window.scale = scale] ELSE @]
    /\ UNCHANGED <<phase, crashed, shell, interface_version, advertised, unlocker,
                   painted, readySent, unlockSent, lockEvents>>
    /\ UNCHANGED lockVars
    /\ UNCHANGED extVars

(* ---- global_handler ---- *)

\* window_get_wl_surface(panel_window(output->panel)) and its like: the surface of
\* the window that the named member of the output with this id owns.
SurfaceOf(member, id) == [of |-> member, output |-> id]

\* The request desktop_shell_set_panel / _set_background / _set_grab_surface as
\* marshalled: on which handle, for which wl_output (NULL: none), with which
\* surface.
ShellRequest(name, handle, output, surface) ==
    [request |-> name, shell |-> handle, output |-> output, surface |-> surface]

\* The requests the "wl_output" branch marshals for a new output, in order; the
\* process dies in the first one marshalled on a NULL handle.
output_requests(output) ==
    LET all == (IF output.panel # NULL
                THEN <<ShellRequest("set_panel", shell, [id |-> output.id],
                                    SurfaceOf("panel", output.id))>>
                ELSE << >>)
               \o <<ShellRequest("set_background", shell, [id |-> output.id],
                                 SurfaceOf("background", output.id))>>
    IN  IF shell = NULL THEN <<Head(all)>> ELSE all

\* The bag of the elements of a sequence.
RECURSIVE BagOfSeq(_)
BagOfSeq(q) == IF q = << >> THEN EmptyBag ELSE SetToBag({Head(q)}) (+) BagOfSeq(Tail(q))


\* The "desktop_shell" branch.  The compositor announces the global once.
global_handler_shell(version) ==
    /\ ~crashed
    /\ advertised = 0
    /\ advertised' = version
    /\ interface_version' = IF version < 2 THEN version ELSE 2
    /\ shell' = [ptr |-> "desktop_shell"]
    /\ UNCHANGED <<phase, crashed, unlocker, outputs, painted, readySent, unlockSent,
                   lockEvents>>
    /\ UNCHANGED lockVars
    /\ UNCHANGED extVars

global_handler_output_rearm(panelOk) ==
    /\ ~crashed
    /\ Len(outputs) < MaxOutputs
    /\ LET output == [id |-> Len(outputs) + 1,
                      panel |-> panel_create(panelOk),
                      background |-> background_create]
       IN  /\ outputs' = <<output>> \o outputs
           /\ requests' = requests (+) BagOfSeq(output_requests(output))
           /\ crashed' = (shell = NULL)
    /\ painted' = 0
    /\ UNCHANGED <<phase, shell, interface_version, advertised, unlocker,
                   readySent, unlockSent, lockEvents>>
    /\ UNCHANGED lockVars
    /\ UNCHANGED <<exceptHotplug, removed>>

\* The "wl_output" branch.  panelOk: malloc() in panel_create succeeded (the handler
\* tests the panel it gets; calloc() in output_create and malloc() in
\* background_create, whose results it does not test, are taken to succeed).  The
\* new output is inserted at the head of desktop.outputs.  The set_panel and
\* set_background requests are marshalled on desktop.shell: on a NULL handle the
\* process dies.
global_handler_output(panelOk) ==
    /\ ~crashed
    /\ Len(outputs) < MaxOutputs
    /\ LET output == [id |-> Len(outputs) + 1,
                      panel |-> panel_create(panelOk),
                      background |-> background_create]
       IN  /\ outputs' = <<output>> \o outputs
           /\ requests' = requests (+) BagOfSeq(output_requests(output))
           /\ crashed' = (shell = NULL)
    /\ UNCHANGED <<phase, shell, interface_version, advertised, unlocker, painted,
                   readySent, unlockSent, lockEvents>>
    /\ UNCHANGED lockVars
    /\ UNCHANGED <<exceptHotplug, removed>>

(* ---- main ---- *)

\* What unlocker_create() returns and the object it allocates: dialog is not
\* initialised.
unlocker_create == [ret |-> NULL, object |-> [dialog |-> UNINIT]]

\* main() from grab_surface_create() to the call of display_run(): the globals
\* announced so far have been handled, events and redraws are dispatched from here
\* on.  desktop_shell_set_grab_surface is marshalled on desktop.shell: on a NULL
\* handle the process dies.  Reading weston.ini changes no variable of this model.
main_startup ==
    /\ phase = "startup" /\ ~crashed
    /\ phase' = "run"
    /\ requests' = requests (+) SetToBag({ShellRequest("set_grab_surface", shell, NULL,
                                                       SurfaceOf("grab_window", 0))})
    /\ crashed' = (shell = NULL)
    /\ UNCHANGED <<shell, interface_version, advertised, unlocker, outputs, painted,
                   readySent, unlockSent, lockEvents>>
    /\ UNCHANGED lockVars
    /\ UNCHANGED <<exceptHotplug, removed>>

(* ---- desktop-shell-unlock.c ---- *)

\* allocOk: malloc() succeeded.  memset() zeroes the dialog and nothing assigns its
\* unlocker field afterwards.  The dialog is registered as the lock surface.
unlock_dialog_create(allocOk) ==
    IF allocOk
    THEN /\ dialog' = [closing |-> 0, button_focused |-> 0, unlocker |-> NULL]
         /\ lockSurfaceSet' = lockSurfaceSet + 1
         /\ input' = << >>
    ELSE /\ dialog' = NULL
         /\ UNCHANGED <<lockSurfaceSet, input>>

\* if (!unlocker->dialog): a field nothing has written reads as any pointer.
unlocker_lock(allocOk) ==
    \E seen \in (IF dialog = UNINIT THEN {NULL, GARBAGE} ELSE {dialog}) :
        IF seen = NULL
        THEN unlock_dialog_create(allocOk)
        ELSE UNCHANGED <<dialog, lockSurfaceSet, input>>

desktop_shell_prepare_lock_surface_no_null_check(allocOk) ==
    /\ phase = "run" /\ ~crashed
    /\ lockEvents < MaxLockEvents
    /\ lockEvents' = lockEvents + 1
    /\ IF key_locking = 0
       THEN /\ unlockSent' = unlockSent + 1
            /\ UNCHANGED <<dialog, lockSurfaceSet, input, crashed>>
       ELSE IF unlocker = NULL
       THEN /\ crashed' = TRUE
            /\ UNCHANGED <<dialog, lockSurfaceSet, input, unlockSent>>
       ELSE /\ unlocker_lock(allocOk)
            /\ UNCHANGED <<unlockSent, crashed>>
    /\ UNCHANGED <<phase, shell, interface_version, advertised, unlocker, outputs,
                   painted, readySent>>
    /\ UNCHANGED <<deferred, dialogsDestroyed, taskDefers>>
    /\ UNCHANGED extVars

desktop_shell_prepare_lock_surface(allocOk) ==
    /\ phase = "run" /\ ~crashed
    /\ lockEvents < MaxLockEvents
    /\ lockEvents' = lockEvents + 1
    /\ IF key_locking = 0 \/ unlocker = NULL
       THEN /\ unlockSent' = unlockSent + 1
            /\ UNCHANGED <<dialog, lockSurfaceSet, input>>
       ELSE /\ unlocker_lock(allocOk)
            /\ UNCHANGED unlockSent
    /\ UNCHANGED <<phase, crashed, shell, interface_version, advertised, unlocker,
                   outputs, painted, readySent>>
    /\ UNCHANGED <<deferred, dialogsDestroyed, taskDefers>>
    /\ UNCHANGED extVars

\* display_defer(): the task is linked into the display's deferred list.
display_defer(task) ==
    deferred' = Append(deferred, task)

\* What the two loads through dialog->unlocker at the head of the button handler do
\* when the field is NULL and their values are not used afterwards: the process
\* dies, or the build has moved the loads into the branch that uses them.
LoadOutcomes == {"crash", "unused"}

\* The toolkit dispatches a button event of the dialog's button widget.  desktop
\* and unlocker are loaded through dialog->unlocker first; the accepted release
\* passes both on, so with a NULL field the process dies there in every build.
unlock_dialog_button_handler(button, state, load) ==
    /\ phase = "run" /\ ~crashed
    /\ IsDialog(dialog) /\ unlocker # NULL
    /\ Len(input) < MaxButtonEvents
    /\ input' = Append(input, [button |-> button, state |-> state])
    /\ LET accepted == button = "BTN_LEFT" /\ state = "RELEASED" /\ dialog.closing = 0
       IN  IF dialog.unlocker = NULL
           THEN /\ crashed' = (accepted \/ load = "crash")
                /\ UNCHANGED <<deferred, taskDefers, dialog>>
           ELSE /\ IF accepted
                   THEN /\ display_defer("unlock_dialog_finish")
                        /\ taskDefers' = taskDefers + 1
                        /\ dialog' = [dialog EXCEPT !.closing = 1]
                   ELSE UNCHANGED <<deferred, taskDefers, dialog>>
                /\ UNCHANGED crashed
    /\ UNCHANGED <<phase, readySent, unlockSent, lockEvents, lockSurfaceSet,
                   dialogsDestroyed>>
    /\ UNCHANGED desktopVars
    /\ UNCHANGED extVars

unlock_dialog_widget_enter_handler ==
    /\ phase = "run" /\ ~crashed
    /\ IsDialog(dialog)
    /\ dialog' = [dialog EXCEPT !.button_focused = 1]
    /\ UNCHANGED <<phase, crashed, readySent, unlockSent, lockEvents, lockSurfaceSet,
                   dialogsDestroyed, deferred, taskDefers, input>>
    /\ UNCHANGED desktopVars
    /\ UNCHANGED extVars

unlock_dialog_widget_leave_handler ==
    /\ phase = "run" /\ ~crashed
    /\ IsDialog(dialog)
    /\ dialog' = [dialog EXCEPT !.button_focused = 0]
    /\ UNCHANGED <<phase, crashed, readySent, unlockSent, lockEvents, lockSurfaceSet,
                   dialogsDestroyed, deferred, taskDefers, input>>
    /\ UNCHANGED desktopVars
    /\ UNCHANGED extVars

\* unlock_dialog_destroy dereferences the dialog: on a NULL dialog the process dies.
unlock_dialog_finish ==
    /\ unlockSent' = unlockSent + 1
    /\ IF IsDialog(dialog)
       THEN /\ dialogsDestroyed' = dialogsDestroyed + 1
            /\ dialog' = NULL
            /\ UNCHANGED crashed
       ELSE /\ crashed' = TRUE
            /\ UNCHANGED <<dialog, dialogsDestroyed>>

\* display_run(): the loop unlinks the oldest deferred task and runs it.
display_run_deferred ==
    /\ phase = "run" /\ ~crashed
    /\ deferred # << >>
    /\ deferred' = Tail(deferred)
    /\ Head(deferred) = "unlock_dialog_finish"
    /\ unlock_dialog_finish
    /\ UNCHANGED <<phase, readySent, lockEvents, lockSurfaceSet, taskDefers, input>>
    /\ UNCHANGED desktopVars
    /\ UNCHANGED extVars

(* ---- desktop-shell-panel.c: panel_add_launcher ---- *)

\* isspace() on the characters of the model.
isspace(c) == c = " "

\* The character at position q of a string, NUL at and after its end.
CharAt(s, q) == IF q <= Len(s) THEN s[q] ELSE NUL

\* strncmp(s1, s2, n): 0 when the strings agree on their first n characters or up
\* to a common end before that, 1 (some non-zero value) otherwise.
strncmp(s1, s2, n) ==
    LET shorter == IF Len(s1) < Len(s2) THEN Len(s1) ELSE Len(s2)
        m == IF n < shorter + 1 THEN n ELSE shorter + 1
    IN  IF \A q \in 1..m : CharAt(s1, q) = CharAt(s2, q) THEN 0 ELSE 1

\* for (p = start; *p && !isspace(*p); p++): the position the scan stops at.
RECURSIVE TokenEnd(_, _)
TokenEnd(s, p) ==
    IF p <= Len(s) /\ ~isspace(s[p]) THEN TokenEnd(s, p + 1) ELSE p

\* eq after that scan: the position of the last '=' in start..p-1, 0 for NULL.
LastEq(s, start, p) ==
    LET E == {q \in start..(p - 1) : s[q] = "="}
    IN  IF E = {} THEN 0 ELSE CHOOSE q \in E : \A r \in E : r <= q

\* while (*p && isspace(*p)) *p++ = '\0': the position the next token starts at.
RECURSIVE SkipSpace(_, _)
SkipSpace(s, p) ==
    IF p <= Len(s) /\ isspace(s[p]) THEN SkipSpace(s, p + 1) ELSE p

\* for (k = 0; k < i; k++) if (strncmp(ps[k], start, eq - start) == 0) ...: the
\* first entry that compares equal is replaced, and the token is appended when the
\* loop ends with k == i.  rest is the string at start, tok the token there.
envp_override(envp, rest, n, tok) ==
    LET M == {k \in 1..Len(envp) : strncmp(envp[k], rest, n) = 0}
    IN  IF M = {}
        THEN Append(envp, tok)
        ELSE [envp EXCEPT ![CHOOSE k \in M : \A r \in M : k <= r] = tok]

\* The while (*start) loop.  argv and envp are the arrays built so far, without
\* their terminating NULL; j == 0 is argv = << >>.  overrides records the tokens
\* that took the envp branch.
RECURSIVE launcher_scan(_, _, _, _, _)
launcher_scan(s, start, envp, argv, overrides) ==
    IF start > Len(s)
    THEN [path |-> s, envp |-> envp, argv |-> argv, overrides |-> overrides]
    ELSE LET p == TokenEnd(s, start)
             eq == LastEq(s, start, p)
             tok == SubSeq(s, start, p - 1)
             rest == SubSeq(s, start, Len(s))
         IN  IF eq # 0 /\ Len(argv) = 0
             THEN launcher_scan(s, SkipSpace(s, p),
                                envp_override(envp, rest, eq - start, tok),
                                argv, Append(overrides, tok))
             ELSE launcher_scan(s, SkipSpace(s, p), envp, Append(argv, tok),
                                overrides)

\* The launcher panel_add_launcher(panel, icon, cmdline) builds when the process
\* environment is env: envp starts as a copy of environ.
panel_add_launcher(cmdline, env) == launcher_scan(cmdline, 1, env, << >>, << >>)

\* One call of panel_add_launcher with the command line and environment at hand.
panel_add_launcher_call ==
    /\ launcher = NULL
    /\ launcher' = panel_add_launcher(path, environ)
    /\ UNCHANGED <<path, environ>>
    /\ UNCHANGED <<coreVars, exceptParse>>

(* ---- desktop-shell-panel.c: one panel from panel_create to panel_destroy ---- *)

\* A string the configuration reader stored in a key variable.
Str(x) == [str |-> x]

\* The built-in terminal launcher: DATADIR "/weston/terminal.png" and
\* BINDIR "/weston-terminal", a command line of one token without '='.
DefaultIcon == Str("terminal.png")
DefaultPath == <<"t">>

\* The values the keys of a [launcher] section may give; NULL: key absent.
LauncherIcons == {NULL, Str("icon.png")}
LauncherPaths == {NULL, Str(<<"a">>), Str(<<"b">>)}

\* The sections of weston.ini that the panel's section table names.
Sections ==
    {[name |-> "panel", icon |-> NULL, path |-> NULL]} \cup
    {[name |-> "launcher", icon |-> i, path |-> q] : i \in LauncherIcons, q \in LauncherPaths}

\* What happens when launcher_section_done runs panel_add_launcher on a pointer
\* that is not a struct panel: the process dies, or memory outside the panel is
\* written and the launcher is linked into no panel.
Outcomes == {"crash", "lost"}

\* struct panel after panel_create; clock is what panel_add_clock left in it.
\* layout is the allocation panel_resize_handler made last (NULL: none yet).
panel_add_clock(timerOk) == IF timerOk THEN [clock_fd |-> "timerfd"] ELSE NULL

panel_new(timerOk) ==
    [painted |-> 0, window |-> NewWindow, launcher_list |-> << >>,
     clock |-> panel_add_clock(timerOk), layout |-> NULL]

\* panel_create(): malloc() is taken to succeed; timerOk: timerfd_create() did.
panel_create_call(timerOk) ==
    /\ panelState = "none" /\ ~crashed
    /\ panelObj' = panel_new(timerOk)
    /\ panelState' = "created"
    /\ UNCHANGED <<config, key_launcher_icon, key_launcher_path, children, sigchld,
                   forkCalls, launcherEvent, launcherCalls>>
    /\ UNCHANGED <<coreVars, exceptPanel>>

\* An entry of panel.launcher_list.
new_launcher(icon, cmdline) == [icon |-> icon, cmd |-> panel_add_launcher(cmdline, environ)]

\* launcher_section_done(data) on the staging record st = [icon, path, list,
\* calls, crashed]: icon and path are the key variables, list the launcher_list of
\* the panel, calls the arguments of the calls of panel_add_launcher made.  data is "panel" when the callback is handed the struct panel, "&panel"
\* when it is handed the address of a pointer to it.
launcher_section_done(st, data, outcome) ==
    IF st.icon = NULL \/ st.path = NULL
    THEN st
    ELSE IF data = "panel"
    THEN [st EXCEPT !.list = Append(@, new_launcher(st.icon, st.path.str)),
                    !.calls = Append(@, [icon |-> st.icon, path |-> st.path]),
                    !.icon = NULL, !.path = NULL]
    ELSE IF outcome = "crash"
    THEN [st EXCEPT !.calls = Append(@, [icon |-> st.icon, path |-> st.path]),
                    !.crashed = TRUE]
    ELSE [st EXCEPT !.calls = Append(@, [icon |-> st.icon, path |-> st.path]),
                    !.icon = NULL, !.path = NULL]

\* parse_config_file over the sections read: the keys a section gives are stored in
\* the key variables, then the section's done callback is called with data.
RECURSIVE parse_config_file(_, _, _, _)
parse_config_file(secs, st, data, outcomes) ==
    IF secs = << >> \/ st.crashed
    THEN st
    ELSE LET sec == Head(secs)
             stored == [st EXCEPT !.icon = IF sec.icon # NULL THEN sec.icon ELSE @,
                                  !.path = IF sec.path # NULL THEN sec.path ELSE @]
             after == IF sec.name = "launcher"
                      THEN launcher_section_done(stored, data, Head(outcomes))
                      ELSE stored
         IN  parse_config_file(Tail(secs), after, data, Tail(outcomes))

\* panel_read_config(): parse_config_file is given &panel, the address of the
\* parameter, as the data of the callbacks.  outcomes[k] is what the k-th section's
\* callback does with it.  The built-in launcher is added when ret < 0.
panel_read_config(outcomes) ==
    /\ panelState = "created" /\ ~crashed
    /\ LET st == parse_config_file(config.sections,
                                   [icon |-> key_launcher_icon, path |-> key_launcher_path,
                                    list |-> panelObj.launcher_list,
                                    calls |-> launcherCalls, crashed |-> FALSE],
                                   "&panel", outcomes)
       IN  /\ crashed' = st.crashed
           /\ key_launcher_icon' = st.icon
           /\ key_launcher_path' = st.path
           /\ launcherCalls' = st.calls
           /\ panelObj' = [panelObj EXCEPT !.launcher_list =
                             IF config.ret < 0 /\ ~st.crashed
                             THEN Append(st.list, new_launcher(DefaultIcon, DefaultPath))
                             ELSE st.list]
    /\ panelState' = "run"
    /\ UNCHANGED <<config, children, sigchld, forkCalls, launcherEvent>>
    /\ UNCHANGED <<coreButCrashed, exceptPanel>>

panel_launcher_activate_exit_zero(k, forkOk, execOk) ==
    /\ forkCalls' = forkCalls + 1
    /\ IF ~forkOk
       THEN UNCHANGED children
       ELSE children' = Append(children,
                               IF execOk
                               THEN [launcher |-> k, state |-> "exec", status |-> 0]
                               ELSE [launcher |-> k, state |-> "exited", status |-> 0])
    /\ sigchld' = (sigchld \/ (forkOk /\ ~execOk))

\* fork() and, in the child, execve(): forkOk and execOk tell whether they
\* succeed.  A child is recorded with the launcher it came from; status is the
\* argument of exit() where state is "exited".  The exit of a child raises SIGCHLD
\* for the client; a signal already pending is not counted twice.
panel_launcher_activate(k, forkOk, execOk) ==
    /\ forkCalls' = forkCalls + 1
    /\ IF ~forkOk
       THEN UNCHANGED children
       ELSE children' = Append(children,
                               IF execOk
                               THEN [launcher |-> k, state |-> "exec", status |-> 0]
                               ELSE [launcher |-> k, state |-> "exited", status |-> 1])
    /\ sigchld' = (sigchld \/ (forkOk /\ ~execOk))

panel_launcher_button_handler(k, button, state, forkOk, execOk) ==
    /\ panelState = "run" /\ ~crashed
    /\ k \in 1..Len(panelObj.launcher_list)
    /\ forkCalls < MaxForks
    /\ launcherEvent' = [launcher |-> k, button |-> button, state |-> state]
    /\ IF state = "RELEASED"
       THEN panel_launcher_activate(k, forkOk, execOk)
       ELSE UNCHANGED <<children, sigchld, forkCalls>>
    /\ UNCHANGED <<panelState, panelObj, config, key_launcher_icon, key_launcher_path,
                   launcherCalls>>
    /\ UNCHANGED <<coreVars, exceptPanel>>

\* Every launcher gets an allocation, the clock only if (panel->clock).
panel_resize_handler ==
    /\ panelState = "run" /\ ~crashed
    /\ panelObj' = [panelObj EXCEPT !.layout =
                      [launchers |-> Len(panelObj.launcher_list),
                       clock |-> panelObj.clock # NULL]]
    /\ UNCHANGED <<panelState, config, key_launcher_icon, key_launcher_path, children,
                   sigchld, forkCalls, launcherEvent, launcherCalls>>
    /\ UNCHANGED <<coreVars, exceptPanel>>

\* panel_destroy(), called by output_destroy when main() cleans up after
\* display_run(): panel_destroy_clock(panel->clock) reads clock->widget first.
panel_destroy ==
    /\ panelState = "run" /\ ~crashed
    /\ IF panelObj.clock = NULL
       THEN /\ crashed' = TRUE
            /\ UNCHANGED <<panelState, panelObj>>
       ELSE /\ panelObj' = NULL
            /\ panelState' = "destroyed"
            /\ UNCHANGED crashed
    /\ UNCHANGED <<config, key_launcher_icon, key_launcher_path, children, sigchld,
                   forkCalls, launcherEvent, launcherCalls>>
    /\ UNCHANGED <<coreButCrashed, exceptPanel>>

(* ---- desktop-shell-simple.c: reaping the launched children ---- *)

\* The program a launcher started ends with some exit status: the child becomes a
\* zombie and SIGCHLD is raised for the client.
child_exit(j, status) ==
    /\ j \in 1..Len(children)
    /\ children[j].state = "exec"
    /\ children' = [children EXCEPT ![j] = [@ EXCEPT !.state = "exited", !.status = status]]
    /\ sigchld' = TRUE
    /\ UNCHANGED <<panelState, panelObj, config, key_launcher_icon, key_launcher_path,
                   forkCalls, launcherEvent, launcherCalls>>
    /\ UNCHANGED <<coreVars, exceptPanel>>

\* The children left after n more calls of waitpid(-1, &status, WNOHANG): each call
\* reaps the oldest zombie and returns its pid; with no zombie left it returns 0
\* (or -1 without children), whatever else is still running.
RECURSIVE waitpid_loop(_, _)
waitpid_loop(ch, n) ==
    LET zombies == { j \in 1..Len(ch) : ch[j].state = "exited" }
    IN  IF n = 0 \/ zombies = {}
        THEN ch
        ELSE LET j == CHOOSE z \in zombies : \A y \in zombies : z <= y
             IN  waitpid_loop([ch EXCEPT ![j] = [@ EXCEPT !.state = "reaped"]], n - 1)

sigchild_handler_once ==
    /\ panelState = "run" /\ ~crashed
    /\ sigchld
    /\ sigchld' = FALSE
    /\ children' = waitpid_loop(children, 1)
    /\ UNCHANGED <<panelState, panelObj, config, key_launcher_icon, key_launcher_path,
                   forkCalls, launcherEvent, launcherCalls>>
    /\ UNCHANGED <<coreVars, exceptPanel>>

\* sigchild_handler(), installed by main() before display_run(): delivery clears
\* the pending signal, then the loop calls waitpid until it returns no pid.
sigchild_handler ==
    /\ panelState = "run" /\ ~crashed
    /\ sigchld
    /\ sigchld' = FALSE
    /\ children' = waitpid_loop(children, Len(children))
    /\ UNCHANGED <<panelState, panelObj, config, key_launcher_icon, key_launcher_path,
                   forkCalls, launcherEvent, launcherCalls>>
    /\ UNCHANGED <<coreVars, exceptPanel>>

(* ---- desktop-shell-background.c: reading the [background] section ---- *)

\* The values the type key of a [background] section may give; NULL: key absent.
BackgroundTypes == {NULL, Str("scale"), Str("scale-crop"), Str("tile"), Str("bogus")}

BgSections == {[name |-> "background", type |-> t] : t \in BackgroundTypes}

\* What free() does when handed a pointer that malloc() did not return.
FreeOutcomes == {"crash", "ignored"}

\* struct background after background_create: memset to zero.
background_new == [painted |-> 0, type |-> 0]

\* background_create() for one more output, before main() reads the configuration.
background_create_call ==
    /\ ~crashed
    /\ bgReads = 0
    /\ Len(backgrounds) < MaxOutputs
    /\ backgrounds' = Append(backgrounds, background_new)
    /\ UNCHANGED <<bgConfig, key_background_type, bgReads>>
    /\ UNCHANGED <<coreVars, exceptBg>>

\* background_section_done(data) on the staging record st = [key, type, crashed]:
\* key is key_background_type, type the type field of the background.  strcmp on a
\* NULL key kills the process.  data is "background" when the callback is handed
\* the struct background, "&background" when it is handed the address of a pointer
\* to it: the stores then go elsewhere (outcome).  The key is freed and cleared.
background_section_done(st, data, outcome, freed) ==
    IF st.key = NULL
    THEN [st EXCEPT !.crashed = TRUE]
    ELSE LET type == IF st.key.str = "scale" THEN BACKGROUND_SCALE
                     ELSE IF st.key.str = "scale-crop" THEN BACKGROUND_SCALE_CROP
                     ELSE IF st.key.str = "tile" THEN BACKGROUND_TILE
                     ELSE st.type
             stored == IF data = "background" THEN [st EXCEPT !.type = type]
                       ELSE IF outcome = "crash" THEN [st EXCEPT !.crashed = TRUE]
                       ELSE st
         IN  IF stored.crashed \/ ("literal" \in DOMAIN st.key /\ freed = "crash")
             THEN [stored EXCEPT !.crashed = TRUE]
             ELSE [stored EXCEPT !.key = NULL]

\* parse_config_file over the [background] sections read: a type the section gives
\* is stored in key_background_type, then the done callback is called with data.
RECURSIVE parse_config_file_background(_, _, _, _, _)
parse_config_file_background(secs, st, data, outcomes, freed) ==
    IF secs = << >> \/ st.crashed
    THEN st
    ELSE LET sec == Head(secs)
             stored == [st EXCEPT !.key = IF sec.type # NULL THEN sec.type ELSE @]
         IN  parse_config_file_background(
                 Tail(secs),
                 background_section_done(stored, data, Head(outcomes), Head(freed)),
                 data, Tail(outcomes), Tail(freed))

\* background_read_config() on the next background of main()'s loop:
\* parse_config_file is given &background, the address of the parameter.
background_read_config(outcomes, freed) ==
    /\ ~crashed
    /\ bgReads < Len(backgrounds)
    /\ LET i == bgReads + 1
           st == parse_config_file_background(
                     bgConfig.sections,
                     [key |-> key_background_type, type |-> backgrounds[i].type,
                      crashed |-> FALSE],
                     "&background", outcomes, freed)
       IN  /\ crashed' = st.crashed
           /\ key_background_type' = st.key
           /\ backgrounds' = [backgrounds EXCEPT ![i].type = st.type]
    /\ bgReads' = bgReads + 1
    /\ UNCHANGED bgConfig
    /\ UNCHANGED <<coreButCrashed, exceptBg>>

(* ---- desktop-shell-simple.c: grab cursor, removal of outputs ---- *)

\* The switch of desktop_shell_grab_cursor: the local cursor stored for a value.
grab_cursor_switch(cursor) ==
    CASE cursor = "DESKTOP_SHELL_CURSOR_NONE" -> "CURSOR_BLANK"
      [] cursor = "DESKTOP_SHELL_CURSOR_BUSY" -> "CURSOR_WATCH"
      [] cursor = "DESKTOP_SHELL_CURSOR_MOVE" -> "CURSOR_DRAGGING"
      [] cursor = "DESKTOP_SHELL_CURSOR_RESIZE_TOP" -> "CURSOR_TOP"
      [] cursor = "DESKTOP_SHELL_CURSOR_RESIZE_BOTTOM" -> "CURSOR_BOTTOM"
      [] cursor = "DESKTOP_SHELL_CURSOR_RESIZE_LEFT" -> "CURSOR_LEFT"
      [] cursor = "DESKTOP_SHELL_CURSOR_RESIZE_RIGHT" -> "CURSOR_RIGHT"
      [] cursor = "DESKTOP_SHELL_CURSOR_RESIZE_TOP_LEFT" -> "CURSOR_TOP_LEFT"
      [] cursor = "DESKTOP_SHELL_CURSOR_RESIZE_TOP_RIGHT" -> "CURSOR_TOP_RIGHT"
      [] cursor = "DESKTOP_SHELL_CURSOR_RESIZE_BOTTOM_LEFT" -> "CURSOR_BOTTOM_LEFT"
      [] cursor = "DESKTOP_SHELL_CURSOR_RESIZE_BOTTOM_RIGHT" -> "CURSOR_BOTTOM_RIGHT"
      [] OTHER -> "CURSOR_LEFT_PTR"

desktop_shell_grab_cursor_no_default(cursor) ==
    /\ phase = "run" /\ ~crashed
    /\ grab_cursor' = IF cursor \in {"UNNAMED_12", "UNNAMED_255"}
                      THEN grab_cursor
                      ELSE grab_cursor_switch(cursor)
    /\ cursorEvent' = cursor
    /\ UNCHANGED shownCursor
    /\ UNCHANGED <<coreVars, exceptCursor>>

\* The grab_cursor event of the desktop_shell listener.
desktop_shell_grab_cursor(cursor) ==
    /\ phase = "run" /\ ~crashed
    /\ grab_cursor' = grab_cursor_switch(cursor)
    /\ cursorEvent' = cursor
    /\ UNCHANGED shownCursor
    /\ UNCHANGED <<coreVars, exceptCursor>>

\* The pointer enters the grab surface: the handler returns desktop->grab_cursor.
grab_surface_enter_handler ==
    /\ phase = "run" /\ ~crashed
    /\ shownCursor' = grab_cursor
    /\ UNCHANGED <<grab_cursor, cursorEvent>>
    /\ UNCHANGED <<coreVars, exceptCursor>>

\* The compositor removes the wl_output global that was announced as id.  main()
\* registers global_handler alone (display_set_global_handler) and no handler for
\* removals, so nothing of the client is told: the event is only recorded.
global_remove(id) ==
    /\ ~crashed
    /\ id \in 1..Len(outputs)
    /\ id \notin removed
    /\ removed' = removed \cup {id}
    /\ UNCHANGED requests
    /\ UNCHANGED <<coreVars, exceptHotplug>>

(* ---- set_hex_color (desktop-shell-panel.c, desktop-shell-background.c) ---- *)

\* A uint32_t is the function of its 32 bits, bit 0 the least significant.
Bits32 == 0..31

\* Bit i of the natural number n.
BitOf(n, i) == (n \div (2 ^ i)) % 2

\* The uint32_t whose four bytes are b3 (most significant) to b0.
Word(b3, b2, b1, b0) ==
    [i \in Bits32 |-> IF i < 8 THEN BitOf(b0, i)
                      ELSE IF i < 16 THEN BitOf(b1, i - 8)
                      ELSE IF i < 24 THEN BitOf(b2, i - 16)
                      ELSE BitOf(b3, i - 24)]

\* color >> n on a uint32_t: zeroes come in at the top.
shr(w, n) == [i \in Bits32 |-> IF i + n \in Bits32 THEN w[i + n] ELSE 0]

\* w & 0xff, as the number it is.
RECURSIVE low_bits(_, _)
low_bits(w, n) == IF n = 0 THEN 0 ELSE w[n - 1] * (2 ^ (n - 1)) + low_bits(w, n - 1)

and_0xff(w) == low_bits(w, 8)

\* x / 255.0: the quotient is kept as the fraction it is.
Over255(x) == [num |-> x, den |-> 255]

\* cairo_set_source_rgba(cr, red, green, blue, alpha): the source cairo holds.
cairo_set_source_rgba(red, green, blue, alpha) ==
    [red |-> red, green |-> green, blue |-> blue, alpha |-> alpha]

\* Before the first call cairo holds no source of this client's.
NoSource == [red |-> NULL, green |-> NULL, blue |-> NULL, alpha |-> NULL]

\* key_background_color = 0xff002244 and key_panel_color = 0xaa000000.
key_background_color == Word(255, 0, 34, 68)
key_panel_color == Word(170, 0, 0, 0)

\* The bytes the colour words tried are made of.
SampleBytes == (0..MaxLowByte) \cup {34, 68, 170, 255}
ColourWords == { Word(b3, b2, b1, b0) : b3 \in SampleBytes, b2 \in SampleBytes,
                                          b1 \in SampleBytes, b0 \in SampleBytes }

set_hex_color_bgr(c) ==
    /\ color' = c
    /\ source' = cairo_set_source_rgba(Over255(and_0xff(shr(c, 0))),
                                       Over255(and_0xff(shr(c, 8))),
                                       Over255(and_0xff(shr(c, 16))),
                                       Over255(and_0xff(shr(c, 24))))
    /\ UNCHANGED <<coreVars, exceptColor>>

\* set_hex_color(cr, color), the same code in both files.
set_hex_color(c) ==
    /\ color' = c
    /\ source' = cairo_set_source_rgba(Over255(and_0xff(shr(c, 16))),
                                       Over255(and_0xff(shr(c, 8))),
                                       Over255(and_0xff(shr(c, 0))),
                                       Over255(and_0xff(shr(c, 24))))
    /\ UNCHANGED <<coreVars, exceptColor>>

(* ---- specifications ---- *)

\* The launcher parser has not been called.
InitParseIdle ==
    /\ path = << >>
    /\ environ = << >>
    /\ launcher = NULL

InitCore ==
    /\ phase = "startup"
    /\ crashed = FALSE
    /\ shell = NULL
    /\ interface_version = 0
    /\ advertised = 0
    /\ outputs = << >>
    /\ painted = 0
    /\ dialog = unlocker_create.object.dialog
    /\ deferred = << >>
    /\ input = << >>
    /\ readySent = 0
    /\ unlockSent = 0
    /\ lockSurfaceSet = 0
    /\ dialogsDestroyed = 0
    /\ taskDefers = 0
    /\ lockEvents = 0

\* No panel is under test: the statics of desktop-shell-panel.c as the loader
\* leaves them.
InitPanelStatics ==
    /\ key_launcher_icon = NULL
    /\ key_launcher_path = NULL
    /\ children = << >>
    /\ sigchld = FALSE
    /\ forkCalls = 0
    /\ launcherEvent = NULL
    /\ launcherCalls = << >>
    /\ panelState = "none"
    /\ panelObj = NULL

InitPanelIdle ==
    /\ InitPanelStatics
    /\ config = NULL

\* A string literal of the program.
Lit(x) == [str |-> x, literal |-> TRUE]

\* static char *key_background_type = "tile"; no background exists.
InitBgStatics ==
    /\ key_background_type = Lit("tile")
    /\ backgrounds = << >>
    /\ bgReads = 0

InitBgIdle ==
    /\ InitBgStatics
    /\ bgConfig = NULL

\* struct desktop desktop = { 0 }: grab_cursor is the cursor_type of value 0; no
\* grab_cursor event has been received and the pointer has not entered the grab
\* surface.  No wl_output global has been removed.
\* No colour has been set as cairo's source.
InitColorIdle ==
    /\ color = Word(0, 0, 0, 0)
    /\ source = NoSource

InitDesktopRest ==
    /\ grab_cursor = ZeroCursor
    /\ cursorEvent = NoEvent
    /\ shownCursor = NoEvent
    /\ removed = {}
    /\ requests = EmptyBag
    /\ InitColorIdle

InitCommon ==
    /\ InitCore
    /\ InitParseIdle
    /\ InitPanelIdle
    /\ InitBgIdle
    /\ InitDesktopRest

\* main(): struct desktop desktop = { 0 }; desktop.unlocker = unlocker_create(&desktop);
\* wl_list_init(&desktop.outputs).
Init ==
    /\ InitCommon
    /\ unlocker = unlocker_create.ret

Next ==
    \/ \E version \in Versions : global_handler_shell(version)
    \/ \E panelOk \in BOOLEAN : global_handler_output(panelOk)
    \/ main_startup
    \/ \E i \in 1..MaxOutputs : panel_redraw_handler(i)
    \/ \E i \in 1..MaxOutputs : background_draw(i)
    \/ \E i \in 1..MaxOutputs, surface \in {"panel", "background"} :
          desktop_shell_configure(i, surface)
    \/ \E i \in 1..MaxOutputs, transform \in Transforms :
          output_handle_geometry(i, transform)
    \/ \E i \in 1..MaxOutputs, scale \in Scales : output_handle_scale(i, scale)
    \/ \E allocOk \in BOOLEAN : desktop_shell_prepare_lock_surface(allocOk)

Spec == Init /\ [][Next]_vars

\* The handlers of desktop-shell-unlock.c driven with desktop.unlocker holding the
\* coordinator object that unlocker_create() allocated.
InitLock ==
    /\ InitCommon
    /\ unlocker = [ptr |-> "unlocker"]

NextLock ==
    \/ \E version \in Versions : global_handler_shell(version)
    \/ main_startup
    \/ \E allocOk \in BOOLEAN : desktop_shell_prepare_lock_surface(allocOk)
    \/ \E button \in Buttons, state \in ButtonStates, load \in LoadOutcomes :
          unlock_dialog_button_handler(button, state, load)
    \/ unlock_dialog_widget_enter_handler
    \/ unlock_dialog_widget_leave_handler

SpecLock == InitLock /\ [][NextLock]_vars

\* The loop of display_run() runs a deferred task as soon as there is one.
SpecLockFair == SpecLock /\ WF_vars(display_run_deferred)

\* panel_add_launcher applied to every command line of at most MaxPathLen
\* characters under every environment of at most MaxEnv entries.
RECURSIVE SeqsUpTo(_, _)
SeqsUpTo(S, n) ==
    IF n = 0 THEN {<< >>}
    ELSE LET shorter == SeqsUpTo(S, n - 1)
         IN  shorter \cup {Append(q, x) : q \in {r \in shorter : Len(r) = n - 1}, x \in S}

InitParse ==
    /\ InitCore
    /\ unlocker = unlocker_create.ret
    /\ path \in SeqsUpTo(Chars, MaxPathLen)
    /\ environ \in {e \in SeqsUpTo(EnvEntries, MaxEnv) :
                       \A k, l \in 1..Len(e) : e[k] = e[l] => k = l}
    /\ launcher = NULL
    /\ InitPanelIdle
    /\ InitBgIdle
    /\ InitDesktopRest

NextParse == panel_add_launcher_call

SpecParse == InitParse /\ [][NextParse]_vars

\* One panel: created, its configuration read, then driven by the toolkit's
\* events until main() destroys it.  Init draws the contents of weston.ini: ret is
\* what parse_config_file returns (negative: the file is missing, or a line after
\* the sections read is malformed).
Configs == [ret : {-1, 0}, sections : SeqsUpTo(Sections, MaxSections)]

InitPanel ==
    /\ InitCore
    /\ unlocker = unlocker_create.ret
    /\ InitParseIdle
    /\ InitPanelStatics
    /\ config \in Configs
    /\ InitBgIdle
    /\ InitDesktopRest

NextPanel ==
    \/ \E timerOk \in BOOLEAN : panel_create_call(timerOk)
    \/ \E outcomes \in [1..Len(config.sections) -> Outcomes] : panel_read_config(outcomes)
    \/ \E k \in 1..MaxSections + 1, button \in Buttons, state \in ButtonStates,
          forkOk \in BOOLEAN, execOk \in BOOLEAN :
          panel_launcher_button_handler(k, button, state, forkOk, execOk)
    \/ panel_resize_handler
    \/ panel_destroy

SpecPanel == InitPanel /\ [][NextPanel]_vars

\* The backgrounds of the outputs announced at startup and main()'s loop reading
\* weston.ini for each of them.  Init draws the [background] sections of the file.
BgConfigs == [ret : {-1, 0}, sections : SeqsUpTo(BgSections, MaxSections)]

InitBackground ==
    /\ InitCore
    /\ unlocker = unlocker_create.ret
    /\ InitParseIdle
    /\ InitPanelIdle
    /\ InitBgStatics
    /\ bgConfig \in BgConfigs
    /\ InitDesktopRest

NextBackground ==
    \/ background_create_call
    \/ \E outcomes \in [1..Len(bgConfig.sections) -> Outcomes],
          freed \in [1..Len(bgConfig.sections) -> FreeOutcomes] :
          background_read_config(outcomes, freed)

SpecBackground == InitBackground /\ [][NextBackground]_vars

\* The grab cursor: the client starts, then takes grab_cursor events and pointer
\* entries on the grab surface.
NextCursor ==
    \/ \E version \in Versions : global_handler_shell(version)
    \/ main_startup
    \/ \E cursor \in ProtocolCursors : desktop_shell_grab_cursor(cursor)
    \/ grab_surface_enter_handler

SpecCursor == Init /\ [][NextCursor]_vars

\* Outputs coming and going: announcements, redraws and removals of outputs.
NextHotplug ==
    \/ \E version \in Versions : global_handler_shell(version)
    \/ \E panelOk \in BOOLEAN : global_handler_output(panelOk)
    \/ main_startup
    \/ \E i \in 1..MaxOutputs : panel_redraw_handler(i)
    \/ \E i \in 1..MaxOutputs : background_draw(i)
    \/ \E id \in 1..MaxOutputs : global_remove(id)

SpecHotplug == Init /\ [][NextHotplug]_vars

\* Painting: the redraw handlers hand colour words to set_hex_color.
NextColor ==
    \E c \in ColourWords : set_hex_color(c)

SpecColor == Init /\ [][NextColor]_vars

\* The exit statuses tried for a launched program.
ExitStatuses == {0, 1}

\* A panel that reads a weston.ini without sections, or finds none.
InitReap ==
    /\ InitPanel
    /\ config.sections = << >>

\* One panel whose launchers start programs that may end at any time.
NextReap ==
    \/ \E timerOk \in BOOLEAN : panel_create_call(timerOk)
    \/ \E outcomes \in [1..Len(config.sections) -> Outcomes] : panel_read_config(outcomes)
    \/ \E k \in 1..MaxSections + 1, button \in Buttons, state \in ButtonStates,
          forkOk \in BOOLEAN, execOk \in BOOLEAN :
          panel_launcher_button_handler(k, button, state, forkOk, execOk)
    \/ \E j \in 1..MaxForks, status \in ExitStatuses : child_exit(j, status)
    \/ sigchild_handler

\* The kernel delivers a pending SIGCHLD to the running client.
SpecReap == InitReap /\ [][NextReap]_vars /\ WF_vars(sigchild_handler)

(* ---- properties ---- *)

\* Every present panel and background of every tracked output has painted.
AllTrackedPainted(outs) ==
    \A i \in 1..Len(outs) :
        /\ outs[i].panel # NULL => outs[i].panel.painted # 0
        /\ outs[i].background # NULL => outs[i].background.painted # 0

LeftRelease == [button |-> "BTN_LEFT", state |-> "RELEASED"]

\* A left-button release is among the button events dispatched to the newest dialog.
LeftReleased == \E k \in 1..Len(input) : input[k] = LeftRelease

\* C1: a step that sends desktop_ready leaves no tracked output with a present panel
\* or background that has not painted.
C1_ReadyOnlyWhenAllPainted ==
    [][readySent' # readySent => AllTrackedPainted(outputs')]_vars

C1_Witness ==
    /\ readySent = 1
    /\ Len(outputs) = 2
    /\ AllTrackedPainted(outputs)

\* C2: whatever outputs are announced and whatever surfaces are redrawn, and however
\* often, desktop_ready is sent at most once.
C2_ReadyAtMostOnce ==
    readySent <= 1

\* desktop_ready was sent, and an output announced since has a surface still to paint.
C2_Witness ==
    /\ readySent = 1
    /\ Len(outputs) = 2
    /\ ~AllTrackedPainted(outputs)
    /\ AllTrackedPainted(Tail(outputs))

\* C3: with a negotiated version of 2 or more and the barrier not fired, the step
\* that paints the last unpainted surface of the tracked outputs sends desktop_ready.
C3_ReadyAtLastPaint ==
    [][(/\ interface_version >= 2
        /\ painted = 0
        /\ ~AllTrackedPainted(outputs)
        /\ AllTrackedPainted(outputs'))
       => readySent' = readySent + 1]_vars

C3_Witness ==
    /\ advertised = 3
    /\ readySent = 1
    /\ Len(outputs) = 1
    /\ outputs[1].panel # NULL
    /\ AllTrackedPainted(outputs)

\* C4: the negotiated version is min(advertised, 2); desktop_ready is sent only when
\* it is at least 2; below 2 the desktop's painted flag is set on full coverage and
\* nothing is sent.
C4_ReadyGatedOnVersion ==
    /\ interface_version = (IF advertised < 2 THEN advertised ELSE 2)
    /\ readySent > 0 => interface_version >= 2
    /\ (interface_version < 2 /\ outputs # << >> /\ AllTrackedPainted(outputs))
          => (painted = 1 /\ readySent = 0)

C4_Witness ==
    /\ advertised = 1
    /\ interface_version = 1
    /\ outputs # << >>
    /\ AllTrackedPainted(outputs)
    /\ painted = 1
    /\ readySent = 0

\* C5: a painted flag that is set stays set in every step: the flag of each panel
\* and background, and the desktop's, which is set only on full coverage.
C5_PaintedMonotonic ==
    [][/\ painted # 0 => painted' # 0
       /\ (painted = 0 /\ painted' # 0) => AllTrackedPainted(outputs')
       /\ \A i \in 1..Len(outputs) :
            \E j \in 1..Len(outputs') :
               /\ outputs'[j].id = outputs[i].id
               /\ (outputs[i].panel # NULL /\ outputs[i].panel.painted # 0)
                     => (outputs'[j].panel # NULL /\ outputs'[j].panel.painted # 0)
               /\ (outputs[i].background # NULL /\ outputs[i].background.painted # 0)
                     => (outputs'[j].background # NULL
                            /\ outputs'[j].background.painted # 0)]_vars

\* The flags are set, and a scale event, a lock event and a new output came after.
C5_Witness ==
    /\ painted = 1
    /\ lockEvents > 0
    /\ Len(outputs) = 2
    /\ ~AllTrackedPainted(outputs)
    /\ outputs[2].background.painted # 0
    /\ outputs[2].background.window.scale = 2
    /\ outputs[2].background.window.transform = 1

C7_CoordinatorAfterStartup ==
    [][(lockEvents' # lockEvents /\ lockSurfaceSet = dialogsDestroyed) =>
         /\ unlocker # NULL
         /\ unlockSent' = unlockSent
         /\ IsDialog(dialog')]_vars

C11_ZeroOrOneDialog ==
    /\ dialog = NULL \/ IsDialog(dialog)
    /\ lockEvents = 0 => dialog = NULL
    /\ lockSurfaceSet - dialogsDestroyed = (IF IsDialog(dialog) THEN 1 ELSE 0)

\* The maximal runs of non-whitespace characters of a string, in order.
RECURSIVE RunsFrom(_, _)
RunsFrom(s, p) ==
    IF p > Len(s) THEN << >>
    ELSE IF isspace(s[p]) THEN RunsFrom(s, p + 1)
    ELSE <<SubSeq(s, p, TokenEnd(s, p) - 1)>> \o RunsFrom(s, TokenEnd(s, p))

HasEq(tok) == \E q \in 1..Len(tok) : tok[q] = "="

\* The index of the first token without '=', Len(toks) + 1 when there is none.
FirstPlain(toks) ==
    LET P == {k \in 1..Len(toks) : ~HasEq(toks[k])}
    IN  IF P = {} THEN Len(toks) + 1 ELSE CHOOSE k \in P : \A r \in P : k <= r

\* C12: once a command line is parsed, the tokens taken as environment overrides
\* are the maximal runs of non-whitespace that contain '=' and precede the first
\* run without '=', and argv is all runs from that first plain run on, in order.
C12_TokensOverridesArgv ==
    launcher # NULL =>
        LET toks == RunsFrom(path, 1)
            fp == FirstPlain(toks)
        IN  /\ launcher.overrides = SubSeq(toks, 1, fp - 1)
            /\ launcher.argv = SubSeq(toks, fp, Len(toks))

\* The variable name of an entry NAME=VALUE: the characters before its first '='.
NameOf(entry) ==
    LET E == {q \in 1..Len(entry) : entry[q] = "="}
    IN  IF E = {} THEN entry
        ELSE SubSeq(entry, 1, (CHOOSE q \in E : \A r \in E : q <= r) - 1)

\* An environment with the override tok applied to the variable of exactly its name.
ExactOverride(env, tok) ==
    LET M == {k \in 1..Len(env) : NameOf(env[k]) = NameOf(tok)}
    IN  IF M = {} THEN Append(env, tok)
        ELSE [k \in 1..Len(env) |-> IF k \in M THEN tok ELSE env[k]]

RECURSIVE ExactOverrides(_, _)
ExactOverrides(env, toks) ==
    IF toks = << >> THEN env
    ELSE ExactOverrides(ExactOverride(env, Head(toks)), Tail(toks))

\* C13: the environment of a parsed launcher is the inherited one with each
\* override, in order, put in the place of the entry of exactly its variable name
\* or appended when there is no such entry; all other entries keep their value and
\* position.
C13_OverrideExactName ==
    launcher # NULL => launcher.envp = ExactOverrides(environ, launcher.overrides)

\* C14: a step calls fork() only when it dispatches a left-button release to a
\* launcher, and then once; a step that dispatches a left-button release calls it.
C14_SpawnOnlyOnLeftRelease ==
    [][/\ forkCalls' # forkCalls =>
            /\ launcherEvent'.button = "BTN_LEFT"
            /\ launcherEvent'.state = "RELEASED"
            /\ forkCalls' = forkCalls + 1
       /\ (/\ launcherEvent' # launcherEvent
           /\ launcherEvent'.button = "BTN_LEFT"
           /\ launcherEvent'.state = "RELEASED") => forkCalls' = forkCalls + 1]_vars

\* C15: a step that calls fork() leaves the client alive and in its event loop and
\* changes nothing of the desktop, the lock coordinator, the panel and its
\* launchers; when fork() fails no process is added, and a child whose execve()
\* failed has exited with a non-zero status while the children before it are as
\* they were.
C15_ActivationHarmless ==
    [][forkCalls' # forkCalls =>
         /\ ~crashed' /\ panelState' = "run"
         /\ UNCHANGED <<coreVars, panelObj, config, key_launcher_icon, key_launcher_path>>
         /\ \/ children' = children
            \/ /\ Len(children') = Len(children) + 1
               /\ SubSeq(children', 1, Len(children)) = children
               /\ LET child == children'[Len(children')]
                  IN  child.state = "exited" => child.status # 0]_vars

\* fork() has failed once and execve() has failed once in the child of another
\* activation, and the client is still in its event loop.
C15_Witness ==
    /\ forkCalls = 2
    /\ Len(children) = 1
    /\ children[1].state = "exited"
    /\ ~crashed
    /\ panelState = "run"

\* The launcher sections of a configuration that give both keys, in file order;
\* none when the file is missing or cannot be parsed.
Configured(cfg) ==
    IF cfg.ret < 0 THEN << >>
    ELSE SelectSeq(cfg.sections,
                   LAMBDA sec : sec.name = "launcher" /\ sec.icon # NULL /\ sec.path # NULL)

\* C16: once the configuration of a panel is read, the panel has the built-in
\* terminal launcher alone when the configuration yielded no launcher, and
\* otherwise the configured launchers in file order and no built-in one.
C16_DefaultOrConfigured ==
    (panelState = "run" /\ ~crashed) =>
        LET yielded == Configured(config)
        IN  panelObj.launcher_list =
                IF yielded = << >>
                THEN <<new_launcher(DefaultIcon, DefaultPath)>>
                ELSE [k \in 1..Len(yielded) |->
                         new_launcher(yielded[k].icon, yielded[k].path.str)]

\* C18: on a panel created without a clock, every step taken once its
\* configuration is read (a resize, a button event, its destruction)
\* leaves the process alive, and a layout gives no allocation to a clock.
C18_ClocklessPanelOperates ==
    [][(panelState = "run" /\ ~crashed /\ panelObj.clock = NULL) =>
         /\ ~crashed'
         /\ (panelObj' # NULL /\ panelObj'.layout # NULL) => ~panelObj'.layout.clock]_vars

\* The value of the type key that the last [background] section of a
\* configuration gives (NULL: no section gives one).
RECURSIVE ConfiguredType(_)
ConfiguredType(secs) ==
    IF secs = << >> THEN NULL
    ELSE IF secs[Len(secs)].type # NULL THEN secs[Len(secs)].type
    ELSE ConfiguredType(SubSeq(secs, 1, Len(secs) - 1))

\* C17: every background whose configuration has been read has one of the three
\* fill modes, and it is in tile mode when the file gives no type or a type that
\* is none of scale, scale-crop and tile.
C17_DefaultTileMode ==
    ~crashed =>
        \A i \in 1..bgReads :
            /\ backgrounds[i].type \in {BACKGROUND_SCALE, BACKGROUND_SCALE_CROP, BACKGROUND_TILE}
            /\ ConfiguredType(bgConfig.sections) \notin {Str("scale"), Str("scale-crop"), Str("tile")}
                  => backgrounds[i].type = BACKGROUND_TILE

\* C19: an output the compositor has removed is not in desktop.outputs, so that
\* its panel and background are gone and the barrier does not count it.
C19_RemovedOutputDestroyed ==
    \A id \in removed : \A i \in 1..Len(outputs) : outputs[i].id # id

\* The local cursor the client is to show for each protocol value.
ExpectedCursor ==
    ("DESKTOP_SHELL_CURSOR_NONE" :> "CURSOR_BLANK" @@
     "DESKTOP_SHELL_CURSOR_BUSY" :> "CURSOR_WATCH" @@
     "DESKTOP_SHELL_CURSOR_MOVE" :> "CURSOR_DRAGGING" @@
     "DESKTOP_SHELL_CURSOR_RESIZE_TOP" :> "CURSOR_TOP" @@
     "DESKTOP_SHELL_CURSOR_RESIZE_BOTTOM" :> "CURSOR_BOTTOM" @@
     "DESKTOP_SHELL_CURSOR_RESIZE_LEFT" :> "CURSOR_LEFT" @@
     "DESKTOP_SHELL_CURSOR_RESIZE_RIGHT" :> "CURSOR_RIGHT" @@
     "DESKTOP_SHELL_CURSOR_RESIZE_TOP_LEFT" :> "CURSOR_TOP_LEFT" @@
     "DESKTOP_SHELL_CURSOR_RESIZE_TOP_RIGHT" :> "CURSOR_TOP_RIGHT" @@
     "DESKTOP_SHELL_CURSOR_RESIZE_BOTTOM_LEFT" :> "CURSOR_BOTTOM_LEFT" @@
     "DESKTOP_SHELL_CURSOR_RESIZE_BOTTOM_RIGHT" :> "CURSOR_BOTTOM_RIGHT") @@
    [c \in ProtocolCursors |-> "CURSOR_LEFT_PTR"]

\* C20: once a grab_cursor event has been received, desktop.grab_cursor is the
\* local cursor of the last event's value, the left pointer for the arrow value
\* and for every value the protocol does not name; and a step in which the pointer
\* enters the grab surface returns the grab cursor of that moment.
C20_GrabCursorTotal ==
    /\ [](cursorEvent # NoEvent =>
            /\ cursorEvent \in ProtocolCursors
            /\ grab_cursor = ExpectedCursor[cursorEvent]
            /\ grab_cursor # ZeroCursor)
    /\ [][shownCursor' # shownCursor =>
            /\ shownCursor' = grab_cursor
            /\ cursorEvent # NoEvent => shownCursor' = ExpectedCursor[cursorEvent]]_vars

\* A value the protocol does not name was received, and the pointer then entered
\* the grab surface.
C20_Witness ==
    /\ cursorEvent = "UNNAMED_255"
    /\ grab_cursor = "CURSOR_LEFT_PTR"
    /\ shownCursor = "CURSOR_LEFT_PTR"

\* Byte k (0 the least significant) of the word w holds the number n.
ByteIs(w, k, n) == n \in 0..255 /\ \A i \in 0..7 : w[8 * k + i] = BitOf(n, i)

\* C21: for every colour word 0xAARRGGBB, set_hex_color gives cairo alpha from
\* bits 31-24, red from bits 23-16, green from bits 15-8 and blue from bits 7-0,
\* each as that byte over 255; 0xff002244 gives red 0, green 0x22, blue 0x44 and
\* alpha 0xff.
C21_ColourUnpacked ==
    source # NoSource =>
        /\ \A ch \in {"red", "green", "blue", "alpha"} : source[ch].den = 255
        /\ ByteIs(color, 3, source.alpha.num)
        /\ ByteIs(color, 2, source.red.num)
        /\ ByteIs(color, 1, source.green.num)
        /\ ByteIs(color, 0, source.blue.num)
        /\ (color = key_background_color =>
                /\ source.red.num = 0
                /\ source.green.num = 34
                /\ source.blue.num = 68
                /\ source.alpha.num = 255)

\* The default background colour 0xff002244 has been set as the source.
C21_Witness ==
    /\ source # NoSource
    /\ color = key_background_color
    /\ source.green.num = 34
    /\ source.alpha.num = 255

\* The children in the given state.
ChildrenIn(state) == { j \in 1..Len(children) : children[j].state = state }

\* C22: every launched child that exits is eventually reaped by sigchild_handler,
\* also when several children have exited before the handler runs once; the
\* handler leaves every running child running and changes nothing of the desktop.
C22_ChildrenReaped ==
    /\ \A j \in 1..MaxForks :
          (j \in ChildrenIn("exited")) ~> (j \in ChildrenIn("reaped"))
    /\ [][(sigchld /\ ~sigchld') =>
            /\ ChildrenIn("exited")' = {}
            /\ ChildrenIn("exec")' = ChildrenIn("exec")
            /\ UNCHANGED <<coreVars, panelObj, panelState>>]_vars

\* Two launched children have exited, both have been reaped and no signal is
\* pending.
C22_Witness ==
    /\ Cardinality(ChildrenIn("reaped")) = 2
    /\ ~sigchld
    /\ forkCalls = 2

\* The strings of toks joined by single spaces.
RECURSIVE JoinSpaces(_)
JoinSpaces(toks) ==
    IF toks = << >> THEN << >>
    ELSE IF Len(toks) = 1 THEN Head(toks)
    ELSE Head(toks) \o <<" ">> \o JoinSpaces(Tail(toks))

\* The command line rebuilt from a parse result: overrides, then argv.
Reconstructed(l) == JoinSpaces(l.overrides \o l.argv)

\* Parsing the rebuilt command line gives the overrides and argv again.
ReparseSame(l) ==
    LET again == panel_add_launcher(Reconstructed(l), environ)
    IN  again.overrides = l.overrides /\ again.argv = l.argv

\* No token with '=' comes after the first token without '='.
NoEqAfterPlain(cmdline) ==
    LET toks == RunsFrom(cmdline, 1)
    IN  \A k \in 1..Len(toks) : HasEq(toks[k]) => k < FirstPlain(toks)

\* C23: a command line without a '='-bearing token after its first plain token,
\* once parsed, is rebuilt from the result (overrides, then argv, joined by single
\* spaces) into a command line that parses to the same overrides and argv.
C23_ReparseIdempotent ==
    (launcher # NULL /\ NoEqAfterPlain(path)) => ReparseSame(launcher)

\* The requests of the given name marshalled on a bound handle for output o.
RequestsFor(name, o) ==
    { r \in BagToSet(requests) : r.request = name /\ r.shell # NULL /\ r.output = [id |-> o.id] }

\* Exactly one request of that name was sent for o, and it carries the surface of
\* o's own member.
RequestedOnce(name, member, o) ==
    /\ RequestsFor(name, o) =
           {ShellRequest(name, [ptr |-> "desktop_shell"], [id |-> o.id], SurfaceOf(member, o.id))}
    /\ \A r \in RequestsFor(name, o) : CopiesIn(r, requests) = 1

\* C24: every announced wl_output is tracked as exactly one Output that owns one
\* Panel and one Background, with set_panel and set_background each sent once for
\* it with its own surfaces; no output is tracked twice and no surface is
\* registered for another output.
C24_OneOutputPerGlobal ==
    /\ \A i, j \in 1..Len(outputs) : outputs[i].id = outputs[j].id => i = j
    /\ \A i \in 1..Len(outputs) :
          /\ outputs[i].panel # NULL
          /\ outputs[i].background # NULL
          /\ RequestedOnce("set_panel", "panel", outputs[i])
          /\ RequestedOnce("set_background", "background", outputs[i])
    /\ \A r \in BagToSet(requests) :
          r.request \in {"set_panel", "set_background"} =>
              /\ r.surface.output = r.output.id
              /\ \E i \in 1..Len(outputs) : outputs[i].id = r.output.id

\* C27: whatever the order of the announcements, no set_panel, set_background or
\* set_grab_surface request is marshalled on a desktop_shell handle that has not
\* been bound.
C27_NoRequestOnUnboundShell ==
    \A r \in BagToSet(requests) : r.shell # NULL

\* C28 as stated: whenever the desktop-wide painted flag is set, every tracked
\* output's present Panel and Background are painted, outputs announced after the
\* barrier fired included.
C28_PaintedCoversAllOutputs ==
    painted # 0 => AllTrackedPainted(outputs)

\* The output of outs with the given id, as a sequence of at most one element.
OutputWithId(outs, id) == SelectSeq(outs, LAMBDA o : o.id = id)

\* C28, amended: the step that sets the desktop-wide painted flag leaves every
\* tracked output's present Panel and Background painted, the flag is never
\* cleared and a painted surface stays painted; an output announced after the flag
\* was set is tracked without a bearing on the flag.
C28_PaintedCoversOutputsAtBarrier ==
    /\ [][(painted = 0 /\ painted' # 0) => AllTrackedPainted(outputs')]_vars
    /\ [][painted # 0 =>
            /\ painted' # 0
            /\ \A i \in 1..Len(outputs) :
                  AllTrackedPainted(<<outputs[i]>>) =>
                      /\ OutputWithId(outputs', outputs[i].id) # << >>
                      /\ AllTrackedPainted(OutputWithId(outputs', outputs[i].id))]_vars

\* The flag is set, the output tracked when it was set is painted, and the panel
\* of an output announced since has not painted.
C28_Witness ==
    /\ painted # 0
    /\ Len(outputs) = 2
    /\ AllTrackedPainted(<<outputs[2]>>)
    /\ outputs[1].panel # NULL
    /\ outputs[1].panel.painted = 0

\* C29: every launcher built while the configuration is read takes its icon and
\* its path from one [launcher] section that supplies both: a key left by a
\* section skipped as invalid is not used for the launcher of a later section.
C29_LauncherFromOneSection ==
    \A k \in 1..Len(launcherCalls) :
        \E j \in 1..Len(config.sections) :
            /\ config.sections[j].name = "launcher"
            /\ config.sections[j].icon = launcherCalls[k].icon
            /\ config.sections[j].path = launcherCalls[k].path

====
